---- MODULE Spec2Model ----
(***************************************************************************)
(* A model of parley's Deferred: the completion state machine of           *)
(* Deferred.prototype.exec (spinlocks, timeout race, synchronous throw     *)
(* capture, escape hatch), and the consumption modes built on it           *)
(* (.exec, .toPromise/.then/.catch, .now, .log).                           *)
(*                                                                         *)
(* JavaScript runs one call stack at a time: a public method call is one   *)
(* step, except that exec() hands control to the work function             *)
(* (_handleExec), whose synchronous part is a sequence of steps taken      *)
(* while pc = "inWork".  Timer callbacks and work's asynchronous           *)
(* completion signals only run when the stack is empty (pc = "idle").      *)
(***************************************************************************)
EXTENDS Integers, Sequences, FiniteSets, TLC

\* ------------------------------------------------------------------ bounds
\* How many public method calls are made on the Deferred.
MaxCalls == 2
\* How many times work invokes its completion signal (sync and async together).
MaxSignals == 2

\* ------------------------------------------------------- JavaScript values
Undefined == [tag |-> "undefined"]
Null == [tag |-> "null"]
Num(n) == [tag |-> "number", n |-> n]
Str(s) == [tag |-> "string", s |-> s]
Bool(b) == [tag |-> "boolean", b |-> b]
Fn(id) == [tag |-> "function", id |-> id]
\* A plain object (dictionary); cause is Undefined when it has no such field.
Obj(id, cause) == [tag |-> "object", id |-> id, cause |-> cause]
\* An Error instance made by userland code (work or the consumer's callback).
UserError(msg) == [tag |-> "error", name |-> "Error", message |-> msg, raw |-> Undefined]

ErrBoom == UserError("boom")
ErrInner == UserError("inner")
\* The exception a consumer's callback throws.
ErrX == UserError("bug in callback")
\* A bluebird/async-await style rejection: not an Error, but carries one as cause.
ObjWithCause == Obj("wrapper", ErrInner)
ObjPlain == Obj("dict", Undefined)
\* An Error instance that itself carries a cause.
ErrWithCause ==
  [tag |-> "error", name |-> "Error", message |-> "outer", raw |-> Undefined,
   cause |-> ErrInner]
\* An array.
Arr == [tag |-> "array"]
\* The Deferred itself, as a value returned to the caller.
Self == [tag |-> "deferred"]

\* JS truthiness (ToBoolean).
Truthy(v) ==
  CASE v.tag = "undefined" -> FALSE
    [] v.tag = "null" -> FALSE
    [] v.tag = "boolean" -> v.b
    [] v.tag = "number" -> v.n # 0
    [] v.tag = "string" -> v.s # ""
    [] OTHER -> TRUE

IsFunction(v) == v.tag = "function"
IsError(v) == v.tag = "error"
IsString(v) == v.tag = "string"
\* _.isObject: objects, arrays and functions (errors are objects too).
IsObject(v) == v.tag \in {"object", "array", "function", "error"}
IsArray(v) == v.tag = "array"

\* util.inspect(v, {depth: n}) for the values of the model.
Inspect(v) ==
  CASE v.tag = "undefined" -> "undefined"
    [] v.tag = "null" -> "null"
    [] v.tag = "boolean" -> (IF v.b THEN "true" ELSE "false")
    [] v.tag = "number" -> ToString(v.n)
    [] v.tag = "string" -> "'" \o v.s \o "'"
    [] v.tag = "function" -> "[Function: " \o v.id \o "]"
    [] v.tag = "array" -> "[]"
    [] v.tag = "error" -> "[" \o v.name \o ": " \o v.message \o "]"
    [] OTHER -> "{ " \o v.id \o " }"

\* flaverr({name?, message, raw?}, omen): an Error instance carrying the given
\* properties (the omen only supplies the stack).
Flaverr(name, message, raw) ==
  [tag |-> "error", name |-> name, message |-> message, raw |-> raw]

\* The four-way normalization of a failure value.
NormalizeError(e) ==
  IF IsError(e) THEN e
  ELSE IF IsObject(e) /\ e.tag = "object" /\ Truthy(e.cause) /\ IsError(e.cause) THEN e.cause
  ELSE IF IsString(e) THEN Flaverr("Error", e.s, e)
  ELSE Flaverr("Error", Inspect(e), e)

\* The error the timer callback builds.
TimeoutError(t) ==
  Flaverr("TimeoutError", "timeout of " \o Inspect(t) \o "ms exceeded", Undefined)

\* The envelope the callback wrapper throws to bust out of exec()'s try block.
\* traceRef is the Deferred that built it (this model has one Deferred, "self").
Envelope(x) ==
  [tag |-> "error", name |-> "Envelope", message |-> "", raw |-> x,
   code |-> "E_ESCAPE_HATCH", traceRef |-> "self"]

\* The envelope another Deferred built around an exception of its own consumer.
ForeignEnvelope ==
  [tag |-> "error", name |-> "Envelope", message |-> "", raw |-> ErrInner,
   code |-> "E_ESCAPE_HATCH", traceRef |-> "other"]

\* arguments[i] of a call (1-based here), undefined beyond arguments.length.
Arg(args, i) == IF i <= Len(args) THEN args[i] ELSE Undefined
\* arguments[i] = v leaves arguments.length alone: past the end it is not passed on
\* by .apply(undefined, arguments).
SetArg(args, i, v) == IF i <= Len(args) THEN [args EXCEPT ![i] = v] ELSE args


\* --------------------------------------------------------------- the state
VARIABLES
  \* configuration attached to the Deferred when it is built
  _timeout, _finalAfterExecLC,
  \* the explicit callback parley() was called with, if any
  explicitCb,
  \* the rules registered with intercept() and tolerate(), in order
  _userlandAfterExecLCs,
  \* instance variables of the Deferred
  _hasBegunExecuting, _hasFinishedExecuting, _hasTimedOut,
  _hasAlreadyWaitedAtLeastOneTick, _skipImplSpinlockWarning, _promise,
  \* closure variables of the exec() call that got past the spinlock
  timeoutAlarm, _cb, handleUncaughtException,
  \* the call stack: "idle" (empty) or "inWork" (exec() has called _handleExec,
  \* which has not returned yet), and the method that called that exec(); before
  \* parley() has built the Deferred "unbuilt", and when parley() runs work directly
  \* with an explicit callback "directWork" (work on the stack) and then "direct"
  pc, caller,
  \* the promises built by toPromise(), and the locals of the running now()
  promises, nowLocals,
  \* what the environment has observed
  handleExecCount, calls, lastDelivery, hueCalls, firstEvent, last, nCalls, nSignals

config == <<_timeout, _finalAfterExecLC, explicitCb>>
execVars == <<_hasBegunExecuting, _hasFinishedExecuting, _hasTimedOut,
              _hasAlreadyWaitedAtLeastOneTick, timeoutAlarm, _cb,
              handleUncaughtException, handleExecCount>>
consumerVars == <<calls, lastDelivery, hueCalls>>
callerVars == <<pc, caller, _promise, _skipImplSpinlockWarning, promises, nowLocals>>
vars == <<config, _userlandAfterExecLCs, execVars, consumerVars, callerVars, firstEvent, last, nCalls, nSignals>>

\* The callbacks that can be handed to exec(): two userland functions, and the
\* ones toPromise() (bluebird's nodeback), now() and log() build.
CbIds == {"cb1", "cb2", "promiseCb", "nowCb", "logCb"}
\* Only userland callbacks can throw; the built-in ones never do.
CanThrow(id) == id \in {"cb1", "cb2"}

NoThrow == [tag |-> "nothrow"]
NoDelivery == [cb |-> "none"]
FreshNowLocals ==
  [isFinishedExecuting |-> FALSE, immediateError |-> Undefined, immediateResult |-> Undefined]

\* What the caller of exec() may pass as callback and as uncaught-exception handler.
CbArgs == {Undefined, ObjPlain, Fn("cb1"), Fn("cb2")}
HueArgs == {Undefined, Str("oops"), Fn("h1")}
\* How work may call its completion signal: done(), done(err), done(err, result),
\* done(err, result, extra); err an Error (with or without a cause), an object with
\* an Error as cause, a string or a number, or a falsy value other than null.
SignalArgs ==
  { <<>>, <<Null, Num(42)>>, <<Null, Num(42), Str("meta")>>, <<ErrBoom>>, <<Str("boom")>>,
    <<ObjWithCause>>, <<Num(7)>>, <<ErrWithCause>>,
    <<Bool(FALSE)>>, <<Num(0), Num(42)>>, <<Str("")>> }
\* What work may throw synchronously.
WorkThrows ==
  {ErrBoom, Str("boom"), ObjWithCause, Num(7), Undefined, ErrWithCause, ForeignEnvelope}
\* The configured timeout: unset, zero, negative or positive.
Timeouts == {Undefined, Num(0), Num(0 - 1), Num(5)}
FinalLCs == {Undefined, Fn("interceptAfterExec")}

\* The fields of a Deferred as its constructor leaves them.
Constructed ==
  /\ _timeout \in Timeouts
  /\ _finalAfterExecLC \in FinalLCs
  /\ explicitCb = Undefined
  /\ _userlandAfterExecLCs = <<>>
  /\ _hasBegunExecuting = FALSE
  /\ _hasFinishedExecuting = FALSE
  /\ _hasTimedOut = FALSE
  /\ _hasAlreadyWaitedAtLeastOneTick = Undefined
  /\ _skipImplSpinlockWarning = FALSE
  /\ _promise = Undefined
  /\ timeoutAlarm = "none"
  /\ _cb = "none"
  /\ handleUncaughtException = Undefined
  /\ caller = "none"
  /\ promises = <<>>
  /\ nowLocals = FreshNowLocals
  /\ handleExecCount = 0
  /\ calls = [c \in CbIds |-> 0]
  /\ lastDelivery = NoDelivery
  /\ hueCalls = 0
  /\ firstEvent = "none"
  /\ last = [op |-> "init", outcome |-> "return", value |-> Undefined, diag |-> "none",
             input |-> <<>>, phase |-> "init"]
  /\ nCalls = 0
  /\ nSignals = 0

\* A Deferred has been built and no method has been called on it.
Init == Constructed /\ pc = "idle"


\* ------------------------------------------- the callback wrapper (_tryToRunCb)
\* What a final after-exec lifecycle callback returns: for an error, another error
\* built around it; for a result, another result built around it.
FinalAfterExecLC(err, result) ==
  IF Truthy(err) THEN Flaverr("Intercepted", "intercepted", err)
  ELSE [tag |-> "object", id |-> "postprocessed", cause |-> Undefined, of |-> result]

\* (Mutant: the wrapper ignores the lifecycle callback.)
ApplyFinalLCMutant(args) == args

\* The arguments after the lifecycle callback has been applied to them.
ApplyFinalLC(args) ==
  IF ~Truthy(_finalAfterExecLC) THEN args
  ELSE IF Truthy(Arg(args, 1))
       THEN SetArg(args, 1, FinalAfterExecLC(Arg(args, 1), Undefined))
       ELSE SetArg(args, 2, FinalAfterExecLC(Undefined, Arg(args, 2)))

\* How the wrapper ends when the userland callback throws x (NoThrow: it returns):
\* after a tick the exception goes to handleUncaughtException when there is one and
\* is otherwise left to propagate; within the first tick it is wrapped in an Envelope.
CbEnding(x) ==
  IF x = NoThrow THEN "returned"
  ELSE IF Truthy(_hasAlreadyWaitedAtLeastOneTick)
       THEN (IF Truthy(handleUncaughtException) THEN "handled" ELSE "raw")
       ELSE "envelope"

\* What the wrapper throws to whoever called it.
CbThrown(x) ==
  CASE CbEnding(x) = "raw" -> x
    [] CbEnding(x) = "envelope" -> Envelope(x)
    [] OTHER -> NoThrow

\* (Mutant: a nodeback that fulfils the promise on every call, whatever it receives.)
SettledByMutant(p, recv) == [p EXCEPT !.state = "fulfilled", !.value = Arg(recv, 2)]

\* bluebird's nodeback: the first call settles the promise, later calls do nothing.
SettledBy(p, recv) ==
  IF p.state # "pending" THEN p
  ELSE IF Truthy(Arg(recv, 1))
       THEN [p EXCEPT !.state = "rejected", !.value = Arg(recv, 1)]
       ELSE [p EXCEPT !.state = "fulfilled", !.value = Arg(recv, 2)]

\* The promises after the callback _cb has received recv.
PromisesAfter(recv) ==
  IF _cb = "promiseCb"
  THEN [promises EXCEPT ![Len(promises)] = SettledBy(@, recv)]
  ELSE promises

\* The locals of now() after the callback _cb has received recv.
NowLocalsAfter(recv) ==
  IF _cb = "nowCb"
  THEN [isFinishedExecuting |-> TRUE, immediateError |-> Arg(recv, 1),
        immediateResult |-> Arg(recv, 2)]
  ELSE nowLocals

\* (Mutant: the wrapper invokes the handler of every registered rule.)
UserlandLCsRunMutant == _userlandAfterExecLCs

\* The registered rules whose handlers the wrapper invokes before the callback: it
\* never reads _userlandAfterExecLCs, so none.
UserlandLCsRun == <<>>

\* cb(args...): the wrapper passes the arguments (through the lifecycle callback) to
\* the callback handed to exec(), which throws x or returns.
\* by is the event that led to the call ("signal", "throw" or "timer") and input what
\* work passed to done() or threw.
Deliver(args, x, by, input) ==
  /\ calls' = [calls EXCEPT ![_cb] = @ + 1]
  /\ lastDelivery' = [cb |-> _cb, args |-> ApplyFinalLC(args), by |-> by,
                      input |-> input, thrown |-> x, ending |-> CbEnding(x),
                      lcs |-> _userlandAfterExecLCs, ran |-> UserlandLCsRun]
  /\ hueCalls' = IF CbEnding(x) = "handled" THEN hueCalls + 1 ELSE hueCalls

\* The exceptions the callback handed to exec() may throw.
CbThrows == IF CanThrow(_cb) THEN {NoThrow, ErrX} ELSE {NoThrow}


\* ------------------------------------------------- how a call of exec() ends
Step(op, outcome, value, diag, input, phase) ==
  [op |-> op, outcome |-> outcome, value |-> value, diag |-> diag,
   input |-> input, phase |-> phase]

PromiseObj(id) == [tag |-> "promise", id |-> id]

UsageError(code, message) ==
  [tag |-> "error", name |-> "UsageError", message |-> message, raw |-> Undefined,
   code |-> code]

\* (Mutant: now() neither checks that work has finished nor rethrows its error.)
NowEndsMutant(nl, diag, input, phase) ==
  /\ UNCHANGED _skipImplSpinlockWarning
  /\ last' = Step("now", "return", nl.immediateResult, diag, input, phase)

\* The rest of now() once exec() has returned: nl are the locals its callback set.
NowEnds(nl, diag, input, phase) ==
  IF ~nl.isFinishedExecuting
  THEN /\ _skipImplSpinlockWarning' = TRUE
       /\ last' = Step("now", "throw",
                       UsageError("E_NOT_SYNCHRONOUS", "not actually synchronous"),
                       diag, input, phase)
  ELSE /\ UNCHANGED _skipImplSpinlockWarning
       /\ last' = IF Truthy(nl.immediateError)
                  THEN Step("now", "throw", nl.immediateError, diag, input, phase)
                  ELSE Step("now", "return", nl.immediateResult, diag, input, phase)

\* exec() returns or throws to the method op that called it, which then finishes:
\* exec() and log() pass the outcome on, toPromise()/then()/catch() memoize the promise
\* (bluebird rejects it when exec() threw), now() inspects what its callback recorded.
\* pr and nl are the promises and now()'s locals as the callback left them.
ExecEnds(op, outcome, value, diag, input, phase, pr, nl) ==
  /\ pc' = "idle"
  /\ caller' = "none"
  /\ nowLocals' = nl
  /\ CASE op \in {"exec", "log"} ->
            /\ last' = Step(op, outcome, value, diag, input, phase)
            /\ promises' = pr
            /\ UNCHANGED <<_promise, _skipImplSpinlockWarning>>
       [] op \in {"toPromise", "then", "catch"} ->
            /\ promises' = IF outcome = "throw" /\ pr[Len(pr)].state = "pending"
                           THEN [pr EXCEPT ![Len(pr)] =
                                   [@ EXCEPT !.state = "rejected", !.value = value]]
                           ELSE pr
            /\ _promise' = PromiseObj(Len(pr))
            /\ last' = Step(op, "return", PromiseObj(Len(pr)), diag, input, phase)
            /\ UNCHANGED _skipImplSpinlockWarning
       [] op = "now" ->
            /\ promises' = pr
            /\ UNCHANGED _promise
            /\ IF outcome = "throw"
               THEN /\ last' = Step(op, outcome, value, diag, input, phase)
                    /\ UNCHANGED _skipImplSpinlockWarning
               ELSE NowEnds(nl, diag, input, phase)

\* exec() is still on the stack (or nothing is): only the callback's records change.
StayInCall(pr, nl) ==
  /\ promises' = pr
  /\ nowLocals' = nl
  /\ UNCHANGED <<pc, caller, _promise, _skipImplSpinlockWarning>>

\* ---------------------------------------------------- exec(): up to the work
\* (Mutant: the second argument of exec() is not checked.)
UsageCheckMutant(cbArg, hueArg) ==
  IF cbArg = Undefined THEN UsageError("", "No callback supplied")
  ELSE IF ~IsFunction(cbArg) THEN UsageError("", "doesn't know how to handle a callback like that")
  ELSE NoThrow

\* The usage checks: the error exec() throws for these arguments, or NoThrow.
UsageCheck(cbArg, hueArg) ==
  IF cbArg = Undefined THEN UsageError("", "No callback supplied")
  ELSE IF ~IsFunction(cbArg)
  THEN (IF ~IsArray(cbArg) /\ IsObject(cbArg)
        THEN UsageError("", "doesn't know how to handle {...} callbacks")
        ELSE UsageError("", "doesn't know how to handle a callback like that: "
                            \o Inspect(cbArg)))
  ELSE IF hueArg # Undefined /\ ~IsFunction(hueArg)
  THEN Flaverr("Error", "doesn't know how to handle an uncaught exception handler like that: "
                        \o Inspect(hueArg), Undefined)
  ELSE IF hueArg # Undefined /\ Truthy(_finalAfterExecLC)
  THEN Flaverr("Error", "Consistency violation: the 2nd argument to .exec() may not be used",
               Undefined)
  ELSE NoThrow

\* (Mutant: no userland spinlock.)
SpinlockMutant == FALSE

\* The userland spinlock.
Spinlock == _hasBegunExecuting

\* (Mutant: any truthy timeout arms the timer.)
TimerWantedMutant == Truthy(_timeout)

\* Whether exec() arms the timer.
TimerWanted == Truthy(_timeout) /\ _timeout.tag = "number" /\ _timeout.n > 0

\* (Mutant: exec() calls work without recording that it has begun.)
HasBegunMutant == FALSE

\* What exec() stores in _hasBegunExecuting once past the userland spinlock.
HasBegun == TRUE

\* exec(cbArg, hueArg) called by method op, up to the moment it calls _handleExec.
CallExec(op, cbArg, hueArg, pr, nl) ==
  LET input == <<cbArg, hueArg>> IN
  /\ nCalls' = nCalls + 1
  /\ UNCHANGED <<config, _userlandAfterExecLCs, consumerVars, firstEvent, nSignals>>
  /\ IF UsageCheck(cbArg, hueArg) # NoThrow
     THEN /\ ExecEnds(op, "throw", UsageCheck(cbArg, hueArg), "none", input, "usage", pr, nl)
          /\ UNCHANGED execVars
     ELSE IF Spinlock
     THEN /\ ExecEnds(op, "return", Undefined, "alreadyBegun", input, "spinlock", pr, nl)
          /\ UNCHANGED execVars
     ELSE /\ _hasBegunExecuting' = HasBegun
          /\ timeoutAlarm' = IF TimerWanted THEN "armed" ELSE "none"
          /\ _cb' = cbArg.id
          /\ handleUncaughtException' = hueArg
          /\ handleExecCount' = handleExecCount + 1
          /\ pc' = "inWork"
          /\ caller' = op
          /\ promises' = pr
          /\ nowLocals' = nl
          /\ last' = Step(op, "running", Undefined, "none", input, "call")
          /\ UNCHANGED <<_hasFinishedExecuting, _hasTimedOut,
                         _hasAlreadyWaitedAtLeastOneTick, _promise,
                         _skipImplSpinlockWarning>>

CanCall == pc = "idle" /\ nCalls < MaxCalls

\* deferred.exec(cb, handleUncaughtException)
Exec ==
  \E cbArg \in CbArgs, hueArg \in HueArgs :
    /\ CanCall
    /\ CallExec("exec", cbArg, hueArg, promises, nowLocals)

\* deferred.log()
Log ==
  /\ CanCall
  /\ CallExec("log", Fn("logCb"), Undefined, promises, nowLocals)

\* deferred.now()
Now ==
  /\ CanCall
  /\ CallExec("now", Fn("nowCb"), Undefined, promises, FreshNowLocals)

\* (Mutant: the cached promise is not used.)
NeedsNewPromiseMutant == TRUE

\* Whether toPromise() builds a new promise.
NeedsNewPromise == ~Truthy(_promise)

\* toPromise(), on its own (op = "toPromise") or as the first step of then()/catch().
ToPromiseAs(op) ==
  /\ CanCall
  /\ IF NeedsNewPromise
     THEN CallExec(op, Fn("promiseCb"), Undefined,
                   Append(promises, [state |-> "pending", value |-> Undefined]),
                   nowLocals)
     ELSE /\ nCalls' = nCalls + 1
          /\ last' = Step(op, "return", _promise, "none", <<>>, "call")
          /\ UNCHANGED <<config, _userlandAfterExecLCs, execVars, consumerVars, callerVars,
                         firstEvent, nSignals>>

ToPromise == ToPromiseAs("toPromise")
Then == ToPromiseAs("then")
Catch == ToPromiseAs("catch")


\* ------------------------------------- the completion signal handed to work
\* (Mutant: every success is passed on with cb.apply(undefined, arguments).)
SignalToCbMutant(args) ==
  IF Truthy(Arg(args, 1)) THEN <<NormalizeError(Arg(args, 1))>> ELSE args

\* (Mutant: only undefined and null in the error position mean success.)
SignalToCbStrictMutant(args) ==
  IF Arg(args, 1) \notin {Undefined, Null} THEN <<NormalizeError(Arg(args, 1))>>
  ELSE IF Len(args) > 2 THEN args
  ELSE IF Arg(args, 2) = Undefined THEN <<>>
  ELSE <<Undefined, Arg(args, 2)>>

\* (Mutant: a success is always passed on as (undefined, result).)
SignalToCbNoExtrasMutant(args) ==
  IF Truthy(Arg(args, 1)) THEN <<NormalizeError(Arg(args, 1))>>
  ELSE IF Arg(args, 2) = Undefined /\ Len(args) <= 2 THEN <<>>
  ELSE <<Undefined, Arg(args, 2)>>

\* The arguments the completion signal passes to cb for done(args...).
SignalToCb(args) ==
  IF Truthy(Arg(args, 1)) THEN <<NormalizeError(Arg(args, 1))>>
  ELSE IF Len(args) > 2 THEN args
  ELSE IF Arg(args, 2) = Undefined THEN <<>>
  ELSE <<Undefined, Arg(args, 2)>>

\* (Mutant: no implementorland spinlock.)
ImplSpinlockMutant == FALSE

\* The implementorland spinlock: this completion signal is a duplicate to ignore.
ImplSpinlock == _hasFinishedExecuting /\ ~_skipImplSpinlockWarning

\* The completion signal comes after the timeout has reported the failure.
AlreadyTimedOutMutant == FALSE
AlreadyTimedOut == _hasTimedOut

\* (Mutant: accepting an outcome leaves the timer armed.)
ClearedAlarmMutant == timeoutAlarm

\* clearTimeout(timeoutAlarm), when there is a timer.
ClearedAlarm == IF timeoutAlarm = "armed" THEN "cleared" ELSE timeoutAlarm

\* (Mutant: any escape hatch is taken for this Deferred's own.)
IsOwnEscapeHatchMutant(e) ==
  /\ e.tag = "error"
  /\ e.name = "Envelope"
  /\ "code" \in DOMAIN e
  /\ e.code = "E_ESCAPE_HATCH"

\* Is e the escape hatch of this very Deferred?  (e.name of undefined or null is a
\* TypeError, decided before this is asked.)
IsOwnEscapeHatch(e) ==
  /\ e.tag = "error"
  /\ e.name = "Envelope"
  /\ "code" \in DOMAIN e
  /\ e.code = "E_ESCAPE_HATCH"
  /\ e.traceRef = "self"

\* The first terminal event of the Deferred: a completion signal, a synchronous throw
\* or the timer firing.
FirstEventIs(kind) == firstEvent' = IF firstEvent = "none" THEN kind ELSE firstEvent

\* The flags and the consumer after done(args...), whose callback throws x or returns;
\* what happens to the call stack is left to the caller of this fragment.
SignalEffect(args, x) ==
  IF ImplSpinlock
  THEN /\ x = NoThrow
       /\ UNCHANGED <<execVars, consumerVars>>
  ELSE IF AlreadyTimedOut
  THEN /\ x = NoThrow
       /\ _hasFinishedExecuting' = TRUE
       /\ UNCHANGED <<_hasBegunExecuting, _hasTimedOut, _hasAlreadyWaitedAtLeastOneTick,
                      timeoutAlarm, _cb, handleUncaughtException, handleExecCount,
                      consumerVars>>
  ELSE /\ x \in CbThrows
       /\ timeoutAlarm' = ClearedAlarm
       /\ _hasFinishedExecuting' = TRUE
       /\ Deliver(SignalToCb(args), x, "signal", args)
       /\ UNCHANGED <<_hasBegunExecuting, _hasTimedOut, _hasAlreadyWaitedAtLeastOneTick,
                      _cb, handleUncaughtException, handleExecCount>>

\* Did done(args...) reach the callback, and what did the wrapper throw back?
SignalDelivers == ~ImplSpinlock /\ ~AlreadyTimedOut
SignalDiag == IF ImplSpinlock THEN "duplicateSignal" ELSE "none"
SignalThrown(x) == IF SignalDelivers THEN CbThrown(x) ELSE NoThrow
SignalPromises(args) ==
  IF SignalDelivers THEN PromisesAfter(ApplyFinalLC(SignalToCb(args))) ELSE promises
SignalNowLocals(args) ==
  IF SignalDelivers THEN NowLocalsAfter(ApplyFinalLC(SignalToCb(args))) ELSE nowLocals

\* work calls done(args...) before returning from _handleExec.  An exception thrown
\* by the callback wrapper unwinds work into exec()'s catch block: the Deferred's own
\* escape hatch is unwrapped and rethrown, anything else finds the Deferred finished.
WorkSyncSignal ==
  \E args \in SignalArgs, x \in {NoThrow, ErrX} :
    /\ pc = "inWork"
    /\ nSignals < MaxSignals
    /\ nSignals' = nSignals + 1
    /\ UNCHANGED <<config, _userlandAfterExecLCs, nCalls>>
    /\ FirstEventIs("signal")
    /\ SignalEffect(args, x)
    /\ IF SignalThrown(x) = NoThrow
       THEN /\ StayInCall(SignalPromises(args), SignalNowLocals(args))
            /\ last' = Step("signal", "return", Undefined, SignalDiag, args, "sync")
       ELSE IF IsOwnEscapeHatch(SignalThrown(x))
       THEN ExecEnds(caller, "throw", SignalThrown(x).raw, "none", args, "signal",
                     SignalPromises(args), SignalNowLocals(args))
       ELSE ExecEnds(caller, "return", Undefined, "threwAfterFinished", args, "signal",
                     SignalPromises(args), SignalNowLocals(args))

\* work calls done(args...) from a later tick.  An exception thrown by the callback
\* wrapper goes back to work's asynchronous code.
AsyncSignal ==
  \E args \in SignalArgs, x \in {NoThrow, ErrX} :
    /\ pc = "idle"
    /\ handleExecCount > 0
    /\ nSignals < MaxSignals
    /\ nSignals' = nSignals + 1
    /\ UNCHANGED <<config, _userlandAfterExecLCs, nCalls>>
    /\ FirstEventIs("signal")
    /\ SignalEffect(args, x)
    /\ StayInCall(SignalPromises(args), SignalNowLocals(args))
    /\ last' = IF SignalThrown(x) = NoThrow
               THEN Step("signal", "return", Undefined, SignalDiag, args, "async")
               ELSE Step("signal", "throw", SignalThrown(x), SignalDiag, args, "async")


\* ------------------------------------------ exec(): the catch block and the end
TypeErrorOfName ==
  [tag |-> "error", name |-> "TypeError",
   message |-> "Cannot read property 'name' of undefined", raw |-> Undefined]

\* Which branch of the catch block handles the thrown value e.
CatchBranch(e) ==
  IF e.tag \in {"undefined", "null"} THEN "typeError"
  ELSE IF IsOwnEscapeHatch(e) THEN "escapeHatch"
  ELSE IF _hasFinishedExecuting THEN "afterFinished"
  ELSE IF _hasTimedOut THEN "afterTimeout"
  ELSE "deliver"

\* work throws e before returning from _handleExec.
WorkThrow ==
  \E e \in WorkThrows, x \in {NoThrow, ErrX} :
    /\ pc = "inWork"
    /\ UNCHANGED <<config, _userlandAfterExecLCs, nCalls, nSignals>>
    /\ FirstEventIs("throw")
    /\ CASE CatchBranch(e) = "typeError" ->
              /\ x = NoThrow
              /\ UNCHANGED <<execVars, consumerVars>>
              /\ ExecEnds(caller, "throw", TypeErrorOfName, "none", <<e>>, "throw",
                          promises, nowLocals)
         [] CatchBranch(e) = "escapeHatch" ->
              /\ x = NoThrow
              /\ UNCHANGED <<execVars, consumerVars>>
              /\ ExecEnds(caller, "throw", e.raw, "none", <<e>>, "throw", promises, nowLocals)
         [] CatchBranch(e) = "afterFinished" ->
              /\ x = NoThrow
              /\ UNCHANGED <<execVars, consumerVars>>
              /\ ExecEnds(caller, "return", Undefined, "threwAfterFinished", <<e>>, "throw",
                          promises, nowLocals)
         [] CatchBranch(e) = "afterTimeout" ->
              /\ x = NoThrow
              /\ _hasFinishedExecuting' = TRUE
              /\ UNCHANGED <<_hasBegunExecuting, _hasTimedOut,
                             _hasAlreadyWaitedAtLeastOneTick, timeoutAlarm, _cb,
                             handleUncaughtException, handleExecCount, consumerVars>>
              /\ ExecEnds(caller, "return", Undefined, "threwAfterTimeout", <<e>>, "throw",
                          promises, nowLocals)
         [] OTHER ->
              /\ x \in CbThrows
              /\ timeoutAlarm' = ClearedAlarm
              /\ _hasFinishedExecuting' = TRUE
              /\ Deliver(<<NormalizeError(e)>>, x, "throw", <<e>>)
              /\ UNCHANGED <<_hasBegunExecuting, _hasTimedOut,
                             _hasAlreadyWaitedAtLeastOneTick, _cb,
                             handleUncaughtException, handleExecCount>>
              /\ ExecEnds(caller,
                          IF CbThrown(x) = NoThrow THEN "return" ELSE "throw",
                          IF CbThrown(x) = NoThrow THEN Undefined ELSE CbThrown(x),
                          "none", <<e>>, "throw",
                          PromisesAfter(ApplyFinalLC(<<NormalizeError(e)>>)),
                          NowLocalsAfter(ApplyFinalLC(<<NormalizeError(e)>>)))

\* What exec() records once _handleExec has returned normally.
TickFlag == Bool(~_hasFinishedExecuting)

\* work returns from _handleExec without throwing; exec() records whether it has
\* finished already and returns.
WorkReturn ==
  /\ pc = "inWork"
  /\ _hasAlreadyWaitedAtLeastOneTick' = TickFlag
  /\ UNCHANGED <<_hasBegunExecuting, _hasFinishedExecuting, _hasTimedOut, timeoutAlarm,
                 _cb, handleUncaughtException, handleExecCount>>
  /\ UNCHANGED <<config, _userlandAfterExecLCs, consumerVars, firstEvent, nCalls, nSignals>>
  /\ ExecEnds(caller, "return", Undefined, "none", <<>>, "return", promises, nowLocals)

\* ------------------------------------------------------------ the timer callback
\* (Mutant: the timer callback never reports the timeout.)
AlarmBranchMutant == IF _hasFinishedExecuting THEN "afterFinished" ELSE "again"

\* Which branch the timer callback takes.
AlarmBranch ==
  IF _hasFinishedExecuting THEN "afterFinished"
  ELSE IF _hasTimedOut THEN "again"
  ELSE "timeout"

\* The timer armed by exec() fires (only ever with an empty stack).  An exception
\* the callback wrapper throws is uncaught.
TimerFire ==
  \E x \in {NoThrow, ErrX} :
    /\ pc = "idle"
    /\ timeoutAlarm = "armed"
    /\ timeoutAlarm' = "fired"
    /\ UNCHANGED <<config, _userlandAfterExecLCs, nCalls, nSignals>>
    /\ FirstEventIs("timer")
    /\ IF AlarmBranch = "timeout"
       THEN /\ x \in CbThrows
            /\ _hasTimedOut' = TRUE
            /\ Deliver(<<TimeoutError(_timeout)>>, x, "timer", <<>>)
            /\ StayInCall(PromisesAfter(ApplyFinalLC(<<TimeoutError(_timeout)>>)),
                          NowLocalsAfter(ApplyFinalLC(<<TimeoutError(_timeout)>>)))
            /\ last' = IF CbThrown(x) = NoThrow
                       THEN Step("timer", "return", Undefined, "none", <<>>, "async")
                       ELSE Step("timer", "throw", CbThrown(x), "none", <<>>, "async")
       ELSE /\ x = NoThrow
            /\ UNCHANGED <<_hasTimedOut, consumerVars>>
            /\ StayInCall(promises, nowLocals)
            /\ last' = Step("timer", "return", Undefined, "consistencyViolation", <<>>,
                            "async")
    /\ UNCHANGED <<_hasBegunExecuting, _hasFinishedExecuting,
                   _hasAlreadyWaitedAtLeastOneTick, _cb, handleUncaughtException,
                   handleExecCount>>

\* ------------------------------------------- intercept() and tolerate()
\* What may be passed to intercept() and tolerate(): as first argument a handler, a
\* rule (a string, possibly empty, a number, an array, a dictionary) or nothing; as
\* second argument a handler, something that is not a function, or nothing.
RuleOrHandlerArgs == {Undefined, Fn("h1"), Str("E_X"), Str(""), Num(7), Arr, ObjPlain}
SpecificHandlerArgs == {Undefined, Fn("h1"), Str("oops")}

\* How bindAfterExecLC reads its two arguments.
Handler(a, b) == IF IsFunction(a) /\ b = Undefined THEN a ELSE b
NegotiationRule(a, b) == IF IsFunction(a) /\ b = Undefined THEN Undefined ELSE a

\* The negotiation rules bindAfterExecLC accepts: a non-empty string or a dictionary.
RuleIsAccepted(rule) ==
  \/ IsString(rule) /\ Truthy(rule)
  \/ IsObject(rule) /\ ~IsArray(rule) /\ ~IsFunction(rule)

\* (Mutant: tolerate() needs a handler as intercept() does.)
BindCheckNeedsHandlerMutant(lcType, a, b) ==
  IF ~IsFunction(Handler(a, b))
  THEN UsageError("", "Invalid usage of ." \o lcType \o "().  No handler function provided.")
  ELSE IF NegotiationRule(a, b) # Undefined /\ ~RuleIsAccepted(NegotiationRule(a, b))
  THEN UsageError("", "Invalid usage of ." \o lcType
                      \o "().  Invalid error negotiation rule")
  ELSE NoThrow

\* (Mutant: neither the handler nor the rule is checked.)
BindCheckMutant(lcType, a, b) == NoThrow

\* The checks of bindAfterExecLC: the error it throws, or NoThrow.
BindCheck(lcType, a, b) ==
  IF Handler(a, b) # Undefined /\ ~IsFunction(Handler(a, b))
  THEN UsageError("", "Invalid usage of ." \o lcType
                      \o "().  Provided handler function is invalid.")
  ELSE IF Handler(a, b) = Undefined /\ lcType = "intercept"
  THEN UsageError("", "Invalid usage of .intercept().  No handler function provided.")
  ELSE IF NegotiationRule(a, b) # Undefined /\ ~RuleIsAccepted(NegotiationRule(a, b))
  THEN UsageError("", "Invalid usage of ." \o lcType
                      \o "().  Invalid error negotiation rule")
  ELSE NoThrow

\* (Mutant: the new rule is put in front of the list.)
PushedMutant(lcs, lcType, a, b) ==
  <<[type |-> lcType, rule |-> NegotiationRule(a, b), handler |-> Handler(a, b)]>> \o lcs

\* deferred._userlandAfterExecLCs.push({type, rule, handler})
Pushed(lcs, lcType, a, b) ==
  Append(lcs, [type |-> lcType, rule |-> NegotiationRule(a, b), handler |-> Handler(a, b)])

\* bindAfterExecLC(lcType, a, b, deferred), called by intercept() and tolerate(), which
\* return the Deferred.
BindAfterExecLC(lcType) ==
  \E a \in RuleOrHandlerArgs, b \in SpecificHandlerArgs :
    /\ CanCall
    /\ nCalls' = nCalls + 1
    /\ UNCHANGED <<config, execVars, consumerVars, callerVars, firstEvent, nSignals>>
    /\ IF BindCheck(lcType, a, b) # NoThrow
       THEN /\ last' = Step(lcType, "throw", BindCheck(lcType, a, b), "none", <<a, b>>,
                            "register")
            /\ UNCHANGED _userlandAfterExecLCs
       ELSE /\ last' = Step(lcType, "return", Self, "none", <<a, b>>, "register")
            /\ _userlandAfterExecLCs' = Pushed(_userlandAfterExecLCs, lcType, a, b)

Intercept == BindAfterExecLC("intercept")
Tolerate == BindAfterExecLC("tolerate")

\* ------------------------------------------------------------ the specification
Next ==
  \/ Exec
  \/ Log
  \/ Now
  \/ ToPromise
  \/ Then
  \/ Catch
  \/ WorkSyncSignal
  \/ WorkThrow
  \/ WorkReturn
  \/ AsyncSignal
  \/ TimerFire

Spec == Init /\ [][Next]_vars

\* The same with rules being registered at any moment the stack is empty.
\* Registration touches nothing but the rule list, which the actions of Next never
\* read, so it is left out of Spec and the claims about it are checked here.
RulesNext ==
  \/ Intercept
  \/ Tolerate
  \/ Next

RulesSpec == Init /\ [][RulesNext]_vars


\* ---------------------------------------------------------------- parley()
\* What parley() may be called with.
HandleExecArgs == {Undefined, ObjPlain, Fn("work")}
ExplicitCbArgs == {Undefined, Fn("cb1")}

\* (Mutant: the explicit callback is ignored and a Deferred is always built.)
ParleyBranchMutant(handleExec, explicitCbMaybe) ==
  IF ~Truthy(handleExec) \/ ~IsFunction(handleExec) THEN "throw" ELSE "deferred"

\* What parley(handleExec, explicitCbMaybe) does: throw on a bad first argument, run
\* handleExec directly with the explicit callback, or build a Deferred.
ParleyBranch(handleExec, explicitCbMaybe) ==
  IF ~Truthy(handleExec) \/ ~IsFunction(handleExec) THEN "throw"
  ELSE IF Truthy(explicitCbMaybe) THEN "direct"
  ELSE "deferred"

\* parley(handleExec, explicitCbMaybe)
Parley ==
  \E handleExec \in HandleExecArgs, explicitCbMaybe \in ExplicitCbArgs :
    LET input == <<handleExec, explicitCbMaybe>>
        branch == ParleyBranch(handleExec, explicitCbMaybe) IN
    /\ pc = "unbuilt"
    /\ UNCHANGED <<_timeout, _finalAfterExecLC, _userlandAfterExecLCs, consumerVars,
                   caller, _promise, _skipImplSpinlockWarning, promises, nowLocals,
                   firstEvent, nCalls, nSignals>>
    /\ UNCHANGED <<_hasBegunExecuting, _hasFinishedExecuting, _hasTimedOut,
                   _hasAlreadyWaitedAtLeastOneTick, timeoutAlarm, _cb,
                   handleUncaughtException>>
    /\ CASE branch = "throw" ->
              /\ last' = Step("parley", "throw",
                              Flaverr("Error", "Consistency violation", Undefined),
                              "none", input, "usage")
              /\ UNCHANGED <<pc, explicitCb, handleExecCount>>
         [] branch = "direct" ->
              /\ explicitCb' = explicitCbMaybe
              /\ handleExecCount' = handleExecCount + 1
              /\ pc' = "directWork"
              /\ last' = Step("parley", "running", Undefined, "none", input, "call")
         [] OTHER ->
              /\ pc' = "idle"
              /\ last' = Step("parley", "return", Self, "none", input, "call")
              /\ UNCHANGED <<explicitCb, handleExecCount>>

\* Work run directly by parley() calls done(args...): done is the explicit callback
\* itself, which throws x or returns.  While work is still on the stack its exception
\* unwinds work and leaves parley().
DirectSignal ==
  \E args \in SignalArgs, x \in {NoThrow, ErrX} :
    /\ pc \in {"directWork", "direct"}
    /\ nSignals < MaxSignals
    /\ nSignals' = nSignals + 1
    /\ calls' = [calls EXCEPT ![explicitCb.id] = @ + 1]
    /\ lastDelivery' = [cb |-> explicitCb.id, args |-> args, by |-> "direct",
                        input |-> args, thrown |-> x,
                        ending |-> IF x = NoThrow THEN "returned" ELSE "raw",
                        lcs |-> _userlandAfterExecLCs, ran |-> <<>>]
    /\ pc' = IF x = NoThrow THEN pc ELSE "direct"
    /\ last' = IF x = NoThrow
               THEN Step("signal", "return", Undefined, "none", args, "direct")
               ELSE IF pc = "directWork"
               THEN Step("parley", "throw", x, "none", args, "signal")
               ELSE Step("signal", "throw", x, "none", args, "direct")
    /\ UNCHANGED <<config, _userlandAfterExecLCs, execVars, hueCalls, caller, _promise,
                   _skipImplSpinlockWarning, promises, nowLocals, firstEvent, nCalls>>

\* Work run directly by parley() throws e, which nothing catches, or returns, and
\* parley() returns undefined.
DirectWorkEnds ==
  \E e \in WorkThrows \cup {NoThrow} :
    /\ pc = "directWork"
    /\ pc' = "direct"
    /\ last' = IF e = NoThrow
               THEN Step("parley", "return", Undefined, "none", <<>>, "return")
               ELSE Step("parley", "throw", e, "none", <<e>>, "throw")
    /\ UNCHANGED <<config, _userlandAfterExecLCs, execVars, consumerVars, caller,
                   _promise, _skipImplSpinlockWarning, promises, nowLocals, firstEvent,
                   nCalls, nSignals>>

\* parley() is called first, then the Deferred it built, if any, is used.
ParleyInit == Constructed /\ pc = "unbuilt"

ParleyNext ==
  \/ Parley
  \/ DirectSignal
  \/ DirectWorkEnds
  \/ Next

ParleySpec == ParleyInit /\ [][ParleyNext]_vars

\* The timer eventually fires once it is armed and the stack is empty (the event loop
\* runs due timers).
FairSpec == Spec /\ WF_vars(TimerFire)

\* ===================================================================== claims
NoLC == ~Truthy(_finalAfterExecLC)
Delivered == lastDelivery.cb # "none"
TotalCalls == calls["cb1"] + calls["cb2"] + calls["promiseCb"] + calls["nowCb"] + calls["logCb"]

\* A TimeoutError whose message cites the configured duration.
IsTimeoutErrorCiting(e, t) ==
  /\ e.tag = "error"
  /\ e.name = "TimeoutError"
  /\ e.message = "timeout of " \o ToString(t.n) \o "ms exceeded"

\* The callback has received exactly one call, made by the timer, with the timeout
\* error as the final after-exec lifecycle callback (if any) returned it.
TimeoutDelivered ==
  /\ Delivered
  /\ lastDelivery.cb = _cb
  /\ lastDelivery.by = "timer"
  /\ Len(lastDelivery.args) = 1
  /\ IF NoLC
     THEN IsTimeoutErrorCiting(lastDelivery.args[1], _timeout)
     ELSE /\ lastDelivery.args[1].name = "Intercepted"
          /\ IsTimeoutErrorCiting(lastDelivery.args[1].raw, _timeout)
  /\ calls[_cb] = 1
  /\ TotalCalls = 1

\* The same, as the claims word it: the callback receives a TimeoutError itself.
TimeoutErrorReceived ==
  /\ Delivered
  /\ lastDelivery.cb = _cb
  /\ lastDelivery.by = "timer"
  /\ Len(lastDelivery.args) = 1
  /\ IsTimeoutErrorCiting(lastDelivery.args[1], _timeout)
  /\ calls[_cb] = 1
  /\ TotalCalls = 1

\* C1 (as claimed): single-fire: no callback handed to exec() is ever invoked a second
\* time, whatever work, the timer and the other methods do.
C1_SingleFire == \A c \in CbIds : calls[c] <= 1

\* C2 (amended): once the timer has fired first, the callback has received exactly one
\* call, carrying the TimeoutError citing the configured duration (as returned by the
\* final after-exec lifecycle callback when one is configured); completion signals
\* that arrive afterwards deliver nothing, the first one only marks the Deferred finished.
C2_TimeoutWins ==
  _hasTimedOut => /\ TimeoutDelivered
                  /\ (last.op = "signal" => _hasFinishedExecuting)

\* C2: a state where work signalled after the timeout had been reported.
C2_Witness ==
  /\ _hasTimedOut
  /\ firstEvent = "timer"
  /\ last.op = "signal"
  /\ last.diag = "none"
  /\ _hasFinishedExecuting
  /\ TimeoutDelivered

\* C2 (as claimed): once the timer has fired before work signalled, what the callback
\* has received is a TimeoutError citing the configured duration, and late signals
\* deliver nothing.
C2_Original ==
  (_hasTimedOut /\ firstEvent = "timer") =>
                  /\ TimeoutErrorReceived
                  /\ (last.op = "signal" => _hasFinishedExecuting)

\* C3 (amended): an armed timer whose Deferred is waiting (exec() has returned) leads
\* to work completing first or to the callback having fired exactly once with the
\* TimeoutError (as returned by the final after-exec lifecycle callback, if any).
C3_TimeoutLiveness ==
  (timeoutAlarm = "armed" /\ pc = "idle") ~> (firstEvent \in {"signal", "throw"} \/ TimeoutDelivered)

\* C3: a state where the timer fired on a Deferred whose work stayed silent.
C3_Witness ==
  /\ firstEvent = "timer"
  /\ nSignals = 0
  /\ last.op = "timer"
  /\ TimeoutDelivered

\* C3 (as claimed): ... or to the callback having fired exactly once with a TimeoutError.
C3_Original ==
  (timeoutAlarm = "armed" /\ pc = "idle") ~> (firstEvent \in {"signal", "throw"} \/ TimeoutErrorReceived)

\* C4 (as claimed): if work signals or throws synchronously before the timer has
\* fired, the timer is cancelled: it is neither pending nor does it ever fire, and
\* the Deferred never times out.
C4_WorkWins ==
  firstEvent \in {"signal", "throw"} =>
    /\ timeoutAlarm \notin {"armed", "fired"}
    /\ ~_hasTimedOut

C6_SyncThrow ==
  (last.op = "exec" /\ last.phase = "throw" /\ firstEvent = "throw" /\ nSignals = 0) =>
    /\ (last.outcome = "throw" => last.value # last.input[1])
    /\ _hasFinishedExecuting
    /\ calls[_cb] = 1
    /\ Delivered
    /\ lastDelivery.by = "throw"
    /\ (NoLC => lastDelivery.args = <<NormalizeError(last.input[1])>>)

\* C7: a call of exec() (directly or by log()) on a Deferred that has already begun
\* changes nothing: no second work invocation, no new timer, no callback invoked, the
\* flags and what the consumer has received left alone; and in every step the only
\* callback that can be invoked is the one of the call that began the execution.
C7_SecondExecNoOp ==
  [][ /\ (_hasBegunExecuting /\ nCalls' = nCalls + 1 /\ last'.op \in {"exec", "log"}) =>
         /\ UNCHANGED <<execVars, consumerVars, callerVars, firstEvent>>
         /\ last'.outcome # "running"
      /\ \A c \in CbIds : calls'[c] # calls[c] => c = _cb
    ]_vars

\* C7: exec() was called again after the first call's callback had fired.
C7_Witness ==
  /\ last.op = "exec"
  /\ last.diag = "alreadyBegun"
  /\ last.outcome = "return"
  /\ last.input[1] = Fn("cb2")
  /\ _cb = "cb1"
  /\ calls["cb1"] = 1
  /\ calls["cb2"] = 0

\* C8: work is invoked at most once, whatever methods are called and however often.
C8_WorkAtMostOnce == handleExecCount <= 1

\* C8: then() was called on a Deferred that a previous call had already executed.
C8_Witness ==
  /\ nCalls >= 2
  /\ handleExecCount = 1
  /\ last.op \in {"then", "catch", "toPromise"}
  /\ last.outcome = "return"

\* C9: once _promise is set it is never replaced or cleared, no further promise is
\* built, and toPromise() returns that very promise.
C9_PromiseMemoized ==
  [][ Truthy(_promise) =>
        /\ _promise' = _promise
        /\ Len(promises') = Len(promises)
        /\ (nCalls' = nCalls + 1 /\ last'.op = "toPromise" =>
              /\ last'.outcome = "return"
              /\ last'.value = _promise)
    ]_vars

\* C9: a second toPromise() returned the memoized promise.
C9_Witness ==
  /\ nCalls >= 2
  /\ last.op = "toPromise"
  /\ last.input = <<>>
  /\ last.value = _promise
  /\ Truthy(_promise)
  /\ Len(promises) = 1

\* The arguments exec() must reject.
BadExecArgs(input) ==
  \/ input[1].tag # "function"
  \/ input[2].tag \notin {"undefined", "function"}
  \/ (input[2].tag = "function" /\ ~NoLC)

\* C10: exec() with a missing or non-function callback, a non-function second
\* argument, or a second argument on a Deferred with a final after-exec lifecycle
\* callback, throws and changes nothing: the flags, the timer and work are untouched.
C10_UsageErrorsFailFast ==
  [][ (nCalls' = nCalls + 1 /\ last'.op = "exec" /\ BadExecArgs(last'.input)) =>
        /\ last'.outcome = "throw"
        /\ last'.value.tag = "error"
        /\ UNCHANGED <<execVars, consumerVars, callerVars, firstEvent>>
    ]_vars

\* C10: after a rejected exec(), a valid exec() has begun executing.
C10_Witness ==
  /\ nCalls = 2
  /\ last.op = "exec"
  /\ last.outcome = "running"
  /\ handleExecCount = 1
  /\ pc = "inWork"

\* What the callback handed to exec() receives for an event, whichever method handed
\* it: the completion signal's arguments, the normalized thrown value or the
\* TimeoutError, each passed through the final after-exec lifecycle callback.
DeliveryOf(by, input) ==
  ApplyFinalLC(CASE by = "signal" -> SignalToCb(input)
                 [] by = "throw" -> <<NormalizeError(input[1])>>
                 [] OTHER -> <<TimeoutError(_timeout)>>)

\* A call of now() has just ended, and its callback ran before exec() returned.
NowEndedFinished ==
  /\ last.op = "now"
  /\ last.phase \in {"signal", "throw", "return"}
  /\ nowLocals.isFinishedExecuting

\* C11: now() agrees with callback mode for synchronous work.  What reaches the
\* callback handed to exec() is the same function of work's signal or throw in every
\* mode; when now()'s callback ran before exec() returned, now() throws the error that
\* callback received, if any, and otherwise returns the result it received; and now()
\* returns a value only when its callback ran.
C11_NowAgreesWithCallback ==
  /\ Delivered => lastDelivery.args = DeliveryOf(lastDelivery.by, lastDelivery.input)
  /\ NowEndedFinished =>
       /\ lastDelivery.cb = "nowCb"
       /\ lastDelivery.by \in {"signal", "throw"}
       /\ IF Truthy(Arg(lastDelivery.args, 1))
          THEN last.outcome = "throw" /\ last.value = Arg(lastDelivery.args, 1)
          ELSE last.outcome = "return" /\ last.value = Arg(lastDelivery.args, 2)
  /\ (last.op = "now" /\ last.outcome = "return") => NowEndedFinished

\* C12: when exec() returns to now() without now()'s callback having run (work neither
\* signalled nor threw, or the Deferred had begun already), now() throws a UsageError
\* with code E_NOT_SYNCHRONOUS, returns no value, and the Deferred's
\* _skipImplSpinlockWarning flag is set.
C12_NotSynchronous ==
  (last.op = "now" /\ last.phase \in {"return", "spinlock"}
                   /\ ~nowLocals.isFinishedExecuting) =>
    /\ last.outcome = "throw"
    /\ last.value.name = "UsageError"
    /\ last.value.code = "E_NOT_SYNCHRONOUS"
    /\ _skipImplSpinlockWarning

\* C12: now() on a fresh Deferred whose work returned without signalling.
C12_Witness ==
  /\ last.op = "now"
  /\ last.phase = "return"
  /\ nSignals = 0
  /\ firstEvent = "none"
  /\ last.outcome = "throw"
  /\ last.value.code = "E_NOT_SYNCHRONOUS"
  /\ _skipImplSpinlockWarning

C14_EscapeHatch ==
  (last.op = "exec" /\ last.phase \in {"signal", "throw"}
                    /\ Delivered /\ lastDelivery.thrown # NoThrow) =>
    /\ last.outcome = "throw"
    /\ last.value = lastDelivery.thrown
    /\ calls[_cb] = 1

\* ---- claims about intercept() and tolerate()
\* The elements of a sequence.
Range(seq) == {seq[i] : i \in DOMAIN seq}

\* Does a negotiation rule match the error err?  No rule matches every error; a
\* string matches the error's code or name.
RuleMatches(rule, err) ==
  /\ IsError(err)
  /\ \/ rule = Undefined
     \/ /\ IsString(rule)
        /\ \/ err.name = rule.s
           \/ "code" \in DOMAIN err /\ err.code = rule.s

\* What the callback would have received had no rule been registered.
RawDelivery ==
  CASE lastDelivery.by = "signal" -> SignalToCb(lastDelivery.input)
    [] lastDelivery.by = "throw" -> <<NormalizeError(lastDelivery.input[1])>>
    [] OTHER -> <<TimeoutError(_timeout)>>

\* C15 (as claimed): when the callback handed to exec() is invoked, the handler of
\* every intercept rule registered by then has been run before it.
C15_InterceptRuns ==
  Delivered =>
    \A i \in DOMAIN lastDelivery.lcs :
      lastDelivery.lcs[i].type = "intercept" =>
        lastDelivery.lcs[i] \in Range(lastDelivery.ran)

\* C16: a tolerate rule that does not match what work ended with (work did not fail,
\* or failed with an error the rule does not match) is a passthrough: its handler is
\* not run, and the callback receives what it would have received without the rule.
C16_TolerateNoMatchPassthrough ==
  Delivered =>
    \A i \in DOMAIN lastDelivery.lcs :
      (/\ lastDelivery.lcs[i].type = "tolerate"
       /\ ~RuleMatches(lastDelivery.lcs[i].rule, Arg(RawDelivery, 1))) =>
        /\ lastDelivery.lcs[i] \notin Range(lastDelivery.ran)
        /\ lastDelivery.args = DeliveryOf(lastDelivery.by, lastDelivery.input)

\* C16: work failed with an Error("boom") on a Deferred with a tolerate("E_X", handler)
\* rule, and the callback received that error.
C16_Witness ==
  /\ Delivered
  /\ NoLC
  /\ lastDelivery.lcs =
       <<[type |-> "tolerate", rule |-> Str("E_X"), handler |-> Fn("h1")]>>
  /\ lastDelivery.by = "signal"
  /\ lastDelivery.args = <<ErrBoom>>

\* This step is a call of intercept() or tolerate().
RegisterStep == nCalls' # nCalls /\ last'.phase = "register"

\* The call op(a, b) comes without a usable handler: intercept() with nothing or with
\* only a rule, or a second argument that is not a function.
LacksHandler(op, a, b) ==
  \/ op = "intercept" /\ b = Undefined /\ ~IsFunction(a)
  \/ b # Undefined /\ ~IsFunction(b)

\* C17: intercept() without a handler function, and intercept() or tolerate() with a
\* handler that is not a function, throw a UsageError at registration and append
\* nothing to the Deferred's rule list.
C17_HandlerRequired ==
  [][ (RegisterStep /\ LacksHandler(last'.op, last'.input[1], last'.input[2])) =>
        /\ last'.outcome = "throw"
        /\ last'.value.name = "UsageError"
        /\ _userlandAfterExecLCs' = _userlandAfterExecLCs
    ]_vars

\* C17: intercept("E_X"), with only a rule, has just thrown on a Deferred that holds
\* a rule registered earlier.
C17_Witness ==
  /\ last.op = "intercept"
  /\ last.phase = "register"
  /\ last.input = <<Str("E_X"), Undefined>>
  /\ last.outcome = "throw"
  /\ Len(_userlandAfterExecLCs) = 1

\* The call (a, b) provides a rule, and the rule is not a non-empty string.
ProvidesBadRule(a, b) ==
  /\ a # Undefined
  /\ ~(IsFunction(a) /\ b = Undefined)
  /\ ~(IsString(a) /\ a.s # "")

\* C18 (as claimed): a rule passed to intercept() or tolerate() that is not a
\* non-empty string (an empty string, a number, an array, a dictionary, a function
\* next to a separate handler) makes the call throw a UsageError and append nothing.
C18_RuleMustBeString ==
  [][ (RegisterStep /\ ProvidesBadRule(last'.input[1], last'.input[2])) =>
        /\ last'.outcome = "throw"
        /\ last'.value.name = "UsageError"
        /\ _userlandAfterExecLCs' = _userlandAfterExecLCs
    ]_vars

\* C19: registration is order-preserving and fluent.  No step removes, replaces or
\* reorders a registered rule; a successful intercept() or tolerate() appends exactly
\* one rule of its own type at the end and returns the Deferred; and no call of
\* them invokes work or changes _hasBegunExecuting, _hasFinishedExecuting or
\* _hasTimedOut.
C19_RegistrationOrder ==
  [][ /\ Len(_userlandAfterExecLCs') >= Len(_userlandAfterExecLCs)
      /\ SubSeq(_userlandAfterExecLCs', 1, Len(_userlandAfterExecLCs))
           = _userlandAfterExecLCs
      /\ RegisterStep =>
           /\ handleExecCount' = handleExecCount
           /\ _hasBegunExecuting' = _hasBegunExecuting
           /\ _hasFinishedExecuting' = _hasFinishedExecuting
           /\ _hasTimedOut' = _hasTimedOut
           /\ IF last'.outcome = "return"
              THEN /\ last'.value = Self
                   /\ Len(_userlandAfterExecLCs') = Len(_userlandAfterExecLCs) + 1
                   /\ _userlandAfterExecLCs'[Len(_userlandAfterExecLCs')].type = last'.op
              ELSE _userlandAfterExecLCs' = _userlandAfterExecLCs
    ]_vars

\* C19: an intercept rule, then a tolerate rule, registered in that order.
C19_Witness ==
  /\ Len(_userlandAfterExecLCs) = 2
  /\ _userlandAfterExecLCs[1] =
       [type |-> "intercept", rule |-> Undefined, handler |-> Fn("h1")]
  /\ _userlandAfterExecLCs[2] =
       [type |-> "tolerate", rule |-> Str("E_X"), handler |-> Undefined]
  /\ last.op = "tolerate"
  /\ last.value = Self

\* ---- claims about parley()
\* The methods of a Deferred that consume it.
ConsumptionMethods == {"exec", "log", "now", "toPromise", "then", "catch"}

\* C20: parley(handleExec, explicitCb) with an explicit callback invokes handleExec at
\* once and exactly once, builds no Deferred, hands work the explicit callback itself
\* as completion signal (the callback receives exactly the arguments work passes)
\* and, when it returns, returns undefined; parley(handleExec) returns a Deferred
\* without invoking handleExec, which is invoked only by a consumption method.
C20_ParleyBranches ==
  [][ /\ (pc = "unbuilt" /\ last'.op = "parley" /\ IsFunction(last'.input[1])) =>
           IF Truthy(last'.input[2])
           THEN /\ handleExecCount' = 1
                /\ explicitCb' = last'.input[2]
                /\ pc' = "directWork"
           ELSE /\ handleExecCount' = 0
                /\ pc' = "idle"
                /\ last'.outcome = "return"
                /\ last'.value = Self
      /\ pc' \in {"directWork", "direct"} =>
           /\ handleExecCount' = 1
           /\ ~_hasBegunExecuting'
           /\ (last'.op = "parley" /\ last'.outcome = "return") => last'.value = Undefined
           /\ lastDelivery' # lastDelivery =>
                /\ lastDelivery'.cb = explicitCb.id
                /\ lastDelivery'.args = lastDelivery'.input
      /\ (handleExecCount' # handleExecCount /\ pc # "unbuilt") =>
           /\ last'.op \in ConsumptionMethods
           /\ handleExecCount' = 1
    ]_vars

\* C20: parley(work, cb1) has returned undefined after work signalled (null, 42)
\* synchronously, which cb1 received as passed.
C20_Witness ==
  /\ pc = "direct"
  /\ last.op = "parley"
  /\ last.outcome = "return"
  /\ last.value = Undefined
  /\ handleExecCount = 1
  /\ calls["cb1"] = 1
  /\ lastDelivery.args = <<Null, Num(42)>>

\* ---- claims about duplicate signals, the uncaught-exception handler and the race
\* This step is a completion signal of work.
SignalStep == nSignals' # nSignals

\* C21 (as claimed): once now() has set _skipImplSpinlockWarning and a completion of
\* work has been accepted (_hasFinishedExecuting), a further completion signal does
\* not invoke the callback again and changes nothing in the Deferred.
C21_SuppressionOnlySilences ==
  [][ (SignalStep /\ _skipImplSpinlockWarning /\ _hasFinishedExecuting) =>
        /\ calls' = calls
        /\ lastDelivery' = lastDelivery
        /\ UNCHANGED execVars
    ]_vars

\* C22 (as claimed): when the callback handed to exec() together with an
\* uncaught-exception handler throws X, then if it was invoked after exec() had
\* returned (asynchronous completion or timeout) the handler is invoked once with X
\* and nothing is thrown, and if it was invoked before exec() had returned the
\* handler is not invoked and exec() throws X to its caller.
C22_UncaughtHandlerAsyncOnly ==
  [][ (calls' # calls /\ lastDelivery'.thrown # NoThrow
                      /\ Truthy(handleUncaughtException)) =>
        IF pc = "idle"
        THEN /\ hueCalls' = hueCalls + 1
             /\ last'.outcome # "throw"
        ELSE /\ hueCalls' = hueCalls
             /\ last'.op = "exec"
             /\ last'.outcome = "throw"
             /\ last'.value = lastDelivery'.thrown
    ]_vars

\* C23 (as claimed): first event wins.  Whatever the callback handed to exec() has
\* received is the outcome of the first terminal event of the Deferred (completion
\* signal, synchronous throw or timer), and it has received nothing else.
C23_FirstEventWins ==
  Delivered =>
    /\ lastDelivery.by = firstEvent
    /\ TotalCalls = 1

\* C24 (as claimed): when work has signalled completion synchronously and then throws a
\* value V before returning, the callback has been invoked exactly once with the
\* signalled outcome, V is swallowed with a diagnostic, exec() returns normally and the
\* callback is not invoked with V.
C24_ThrowAfterSyncSignal ==
  [][ (pc = "inWork" /\ last'.phase = "throw" /\ last'.op = "exec"
                     /\ _hasFinishedExecuting /\ firstEvent = "signal") =>
        /\ TotalCalls = 1
        /\ lastDelivery.by = "signal"
        /\ calls' = calls
        /\ lastDelivery' = lastDelivery
        /\ last'.outcome = "return"
        /\ last'.diag = "threwAfterFinished"
    ]_vars

\* The timer callback runs in this step.
TimerStep == timeoutAlarm = "armed" /\ timeoutAlarm' = "fired"

\* C25: whenever the timer callback runs, the Deferred is neither finished nor already
\* timed out, so the callback reports the timeout and logs no consistency violation;
\* and _hasTimedOut is set at most once, by the timer callback.
C25_TimerFindsDeferredPending ==
  [][ /\ TimerStep =>
            /\ ~_hasFinishedExecuting
            /\ ~_hasTimedOut
            /\ _hasTimedOut'
            /\ last'.diag # "consistencyViolation"
      /\ (_hasTimedOut' # _hasTimedOut) => (TimerStep /\ ~_hasTimedOut)
    ]_vars

\* The timer callback has run and has reported the timeout.
C25_Witness ==
  /\ last.op = "timer"
  /\ timeoutAlarm = "fired"
  /\ _hasTimedOut
  /\ ~_hasFinishedExecuting

\* C26: the state flags are monotonic.  _hasBegunExecuting is true whenever work is
\* running, and once _hasBegunExecuting, _hasFinishedExecuting or _hasTimedOut is true
\* it is true in every later state.
C26_FlagsMonotonic ==
  [][ /\ _hasBegunExecuting => _hasBegunExecuting'
      /\ _hasFinishedExecuting => _hasFinishedExecuting'
      /\ _hasTimedOut => _hasTimedOut'
      /\ pc' = "inWork" => _hasBegunExecuting'
    ]_vars

\* All three flags are set, and further events have followed the last one set.
C26_Witness ==
  /\ _hasBegunExecuting
  /\ _hasFinishedExecuting
  /\ _hasTimedOut
  /\ nSignals = MaxSignals

\* work signalled success with extra arguments and the signal reached the callback.
ExtrasDelivered ==
  /\ Delivered
  /\ lastDelivery.by = "signal"
  /\ ~Truthy(Arg(lastDelivery.input, 1))
  /\ Len(lastDelivery.input) > 2

\* C27 (amended): when work signals success with extra arguments, the callback receives
\* as many arguments as work passed, no error in the error position and every extra
\* argument unchanged in its position; the result is unchanged too when the Deferred has
\* no final after-exec lifecycle callback, and is what that callback returns for it
\* otherwise.
C27_ExtraArgs ==
  ExtrasDelivered =>
    /\ Len(lastDelivery.args) = Len(lastDelivery.input)
    /\ ~Truthy(Arg(lastDelivery.args, 1))
    /\ \A i \in 3..Len(lastDelivery.input) : lastDelivery.args[i] = lastDelivery.input[i]
    /\ Arg(lastDelivery.args, 2) = IF NoLC THEN Arg(lastDelivery.input, 2)
                                   ELSE FinalAfterExecLC(Undefined, Arg(lastDelivery.input, 2))

\* C27: work signalled (null, 42, "meta") and the callback received just that.
C27_Witness ==
  /\ ExtrasDelivered
  /\ lastDelivery.input = <<Null, Num(42), Str("meta")>>
  /\ lastDelivery.args = <<Null, Num(42), Str("meta")>>

\* C27 (as claimed): when work signals success with extra arguments, the callback
\* receives the result and every extra argument unchanged, in the same positions and
\* the same number, with no error reported.
C27_Original ==
  ExtrasDelivered =>
    /\ Len(lastDelivery.args) = Len(lastDelivery.input)
    /\ ~Truthy(Arg(lastDelivery.args, 1))
    /\ \A i \in 2..Len(lastDelivery.input) : lastDelivery.args[i] = lastDelivery.input[i]

\* r is what the four-way case split of the claim makes of the failure value v.
IsNormalized(v, r) ==
  IF IsError(v) THEN r = v
  ELSE IF v.tag = "object" /\ IsError(v.cause) THEN r = v.cause
  ELSE IF IsString(v) THEN IsError(r) /\ r.message = v.s
  ELSE IsError(r) /\ r.message = Inspect(v)

\* C28 (as claimed): an error work signals, or a value work throws synchronously, on a
\* Deferred that has neither finished nor timed out reaches the callback as an Error
\* instance made by the four-way case split: an Error as itself, an object with an
\* Error as cause as that cause, a string as an error with that message, anything else
\* as an error whose message renders the value (when no lifecycle callback rewrites it).
C28_ErrorNormalization ==
  [][ ( /\ \/ nSignals' # nSignals /\ Truthy(Arg(last'.input, 1))
           \/ pc = "inWork" /\ last'.phase = "throw"
        /\ ~_hasFinishedExecuting
        /\ ~_hasTimedOut
        /\ NoLC ) =>
        /\ calls' # calls
        /\ Len(lastDelivery'.args) = 1
        /\ IsError(lastDelivery'.args[1])
        /\ IsNormalized(last'.input[1], lastDelivery'.args[1])
    ]_vars

\* The configured timeout is unset, zero, another falsy value or negative.
TimeoutDisabled ==
  \/ ~Truthy(_timeout)
  \/ _timeout.tag = "number" /\ _timeout.n < 0

\* C29: when the configured timeout is unset, 0, any other falsy value or negative, no
\* timer is ever armed, _hasTimedOut never becomes true and no callback ever receives a
\* TimeoutError, whatever work does and however late it signals.
C29_NoTimerWhenDisabled ==
  TimeoutDisabled =>
    /\ timeoutAlarm = "none"
    /\ ~_hasTimedOut
    /\ firstEvent # "timer"
    /\ Delivered => /\ lastDelivery.by # "timer"
                    /\ ~(Len(lastDelivery.args) >= 1
                          /\ IsError(lastDelivery.args[1])
                          /\ lastDelivery.args[1].name = "TimeoutError")

\* C29: with a negative timeout work has signalled from a later tick, after exec()
\* returned, and the callback has received the outcome.
C29_Witness ==
  /\ _timeout = Num(0 - 1)
  /\ Delivered
  /\ lastDelivery.by = "signal"
  /\ last.phase = "async"
  /\ lastDelivery.args = <<Undefined, Num(42)>>

\* How often a callback the consumer handed to exec() has been invoked, and how many
\* of the promises toPromise() built have been settled.
UserlandCbCalls == calls["cb1"] + calls["cb2"]
SettledPromises == Cardinality({i \in 1..Len(promises) : promises[i].state # "pending"})

PromiseAwaitsDoneWork ==
  /\ Len(promises) >= 1
  /\ nSignals > 0 \/ timeoutAlarm = "fired"

C32_TickFlagRecorded ==
  [][ (pc = "inWork" /\ pc' = "idle" /\ caller = "exec" /\ last'.outcome = "return") =>
        _hasAlreadyWaitedAtLeastOneTick' = Bool(~_hasFinishedExecuting')
    ]_vars

\* The error the last delivery was about, as exec() hands it to the callback wrapper:
\* the TimeoutError, or the normalized value work signalled or threw.
ErrorHandedToWrapper ==
  IF lastDelivery.by = "timer" THEN TimeoutError(_timeout)
  ELSE NormalizeError(lastDelivery.input[1])

\* The last delivery reported a failure: the timeout, a synchronous throw or a
\* completion signal with a truthy first argument.
ErrorDelivered ==
  /\ Delivered
  /\ \/ lastDelivery.by \in {"timer", "throw"}
     \/ lastDelivery.by = "signal" /\ Truthy(Arg(lastDelivery.input, 1))

\* C33: with a final after-exec lifecycle callback configured, every error that reaches
\* the callback (signalled by work, thrown by work or produced by the timeout) has been
\* passed through the lifecycle callback exactly once, and the callback receives what
\* it returned, in the error position and as its only argument.
C33_ErrorsThroughFinalLC ==
  (ErrorDelivered /\ ~NoLC) =>
    lastDelivery.args = <<FinalAfterExecLC(ErrorHandedToWrapper, Undefined)>>

\* C33: with a lifecycle callback configured the timer has fired and the callback has
\* received the intercepted TimeoutError.
C33_Witness ==
  /\ ErrorDelivered
  /\ ~NoLC
  /\ lastDelivery.by = "timer"
  /\ lastDelivery.args[1].name = "Intercepted"
  /\ lastDelivery.args[1].raw.name = "TimeoutError"

\* The last delivery reported a success: a completion signal with a falsy first argument.
SuccessDelivered ==
  /\ Delivered
  /\ lastDelivery.by = "signal"
  /\ ~Truthy(Arg(lastDelivery.input, 1))

\* C34 (as claimed): with a final after-exec lifecycle callback configured, a success
\* reaches the callback with, in the result position, what the lifecycle callback
\* returns for the result work signalled, also when work signalled no result.
C34_ResultThroughFinalLC ==
  (SuccessDelivered /\ ~NoLC) =>
    Arg(lastDelivery.args, 2) = FinalAfterExecLC(Undefined, Arg(lastDelivery.input, 2))

\* C35: a completion signal whose first argument is falsy (undefined, null, false, 0 or
\* the empty string), arriving at a Deferred that has neither finished nor timed out,
\* is a success: the Deferred is marked finished and the callback is invoked with
\* nothing truthy in the error position.
C35_FalsyErrorIsSuccess ==
  [][ (SignalStep /\ ~Truthy(Arg(last'.input, 1))
                  /\ ~_hasFinishedExecuting /\ ~_hasTimedOut) =>
        /\ _hasFinishedExecuting'
        /\ calls' # calls
        /\ lastDelivery'.by = "signal"
        /\ lastDelivery'.input = last'.input
        /\ ~Truthy(Arg(lastDelivery'.args, 1))
    ]_vars

\* C35: work signalled (0, 42) and the callback received (undefined, 42).
C35_Witness ==
  /\ SuccessDelivered
  /\ _hasFinishedExecuting
  /\ lastDelivery.input = <<Num(0), Num(42)>>
  /\ lastDelivery.args = <<Undefined, Num(42)>>

\* C36: a completion signal that finds the Deferred finished, with the suppression flag
\* unset, does nothing but log a warning: it returns to work without throwing, leaves
\* the flags, the timer and the promises as they are and delivers nothing.
C36_DuplicateSignalIsNoOp ==
  [][ (SignalStep /\ _hasFinishedExecuting /\ ~_skipImplSpinlockWarning) =>
        /\ UNCHANGED <<execVars, consumerVars, callerVars>>
        /\ last'.outcome = "return"
        /\ last'.diag = "duplicateSignal"
    ]_vars

\* C36: a second completion signal has come after the first was delivered, and was
\* ignored with a warning.
C36_Witness ==
  /\ nSignals = 2
  /\ last.op = "signal"
  /\ last.diag = "duplicateSignal"
  /\ TotalCalls = 1
  /\ _hasFinishedExecuting

\* C37: an escape marker built by another Deferred and thrown out of work, on a Deferred
\* that has neither finished nor timed out, is handled like any other synchronous
\* failure: the Deferred is finished, the callback receives the marker itself as the
\* error (through the lifecycle callback, if any), and exec() does not rethrow the
\* exception the marker wraps.
C37_ForeignMarkerIsDelivered ==
  [][ (pc = "inWork" /\ last'.phase = "throw" /\ last'.input = <<ForeignEnvelope>>
                     /\ ~_hasFinishedExecuting /\ ~_hasTimedOut) =>
        /\ _hasFinishedExecuting'
        /\ calls' # calls
        /\ lastDelivery'.by = "throw"
        /\ lastDelivery'.args = IF NoLC THEN <<ForeignEnvelope>>
                                 ELSE <<FinalAfterExecLC(ForeignEnvelope, Undefined)>>
        /\ ~(last'.outcome = "throw" /\ last'.value = ForeignEnvelope.raw)
    ]_vars

\* C37: work threw another Deferred's marker, the callback received it and exec()
\* returned.
C37_Witness ==
  /\ last.op = "exec"
  /\ last.phase = "throw"
  /\ last.outcome = "return"
  /\ lastDelivery.by = "throw"
  /\ lastDelivery.input = <<ForeignEnvelope>>
  /\ lastDelivery.args = <<ForeignEnvelope>>

\* C38: tolerate() and tolerate(rule), rule a non-empty string, are accepted without a
\* handler: no usage error, one rule of type "tolerate" with that rule and an
\* undefined handler appended to the list, and the Deferred returned.
C38_TolerateWithoutHandler ==
  [][ (RegisterStep /\ last'.op = "tolerate"
                    /\ last'.input[2] = Undefined
                    /\ \/ last'.input[1] = Undefined
                       \/ IsString(last'.input[1]) /\ Truthy(last'.input[1])) =>
        /\ last'.outcome = "return"
        /\ last'.value = Self
        /\ _userlandAfterExecLCs' =
             Append(_userlandAfterExecLCs,
                    [type |-> "tolerate", rule |-> last'.input[1], handler |-> Undefined])
    ]_vars

\* C38: tolerate("E_X") has registered a rule without handler.
C38_Witness ==
  /\ last.op = "tolerate"
  /\ last.input = <<Str("E_X"), Undefined>>
  /\ last.outcome = "return"
  /\ Len(_userlandAfterExecLCs) >= 1
  /\ _userlandAfterExecLCs[Len(_userlandAfterExecLCs)] =
       [type |-> "tolerate", rule |-> Str("E_X"), handler |-> Undefined]

\* C39: in every reachable state a Deferred that has finished or timed out has begun
\* executing, no callback has been invoked on a Deferred that has not begun, and a
\* timer is pending only on a Deferred that has begun and has neither finished nor
\* timed out.
C39_FlagsConsistent ==
  /\ (_hasFinishedExecuting \/ _hasTimedOut) => _hasBegunExecuting
  /\ (TotalCalls > 0 \/ Delivered \/ hueCalls > 0) => _hasBegunExecuting
  /\ timeoutAlarm = "armed" =>
        /\ _hasBegunExecuting
        /\ ~_hasFinishedExecuting
        /\ ~_hasTimedOut

\* C39: exec() has returned, work has not signalled yet and the timer is pending.
C39_Witness ==
  /\ timeoutAlarm = "armed"
  /\ pc = "idle"
  /\ _hasBegunExecuting
  /\ _hasAlreadyWaitedAtLeastOneTick = Bool(TRUE)
  /\ TotalCalls = 0

====
